---- MODULE Spec2Model ----
(***************************************************************************)
(* Content resolver of the scripture reader backend (src-tauri/src/main.rs) *)
(* as a state machine: three read-only commands, each a sequence of         *)
(* filesystem steps (stat, read, parse) followed, for chapter queries, by a *)
(* linear scan over the chapters of the loaded book file.                   *)
(***************************************************************************)
EXTENDS Integers, Sequences, FiniteSets

VARIABLES
    debug_assertions,  \* cfg!(debug_assertions): development or packaged build
    resource_dir_ok,   \* whether the platform resolves the resource directory
    root_exists,       \* whether the content root directory exists on disk
    disk,              \* content tree: path below the root -> kind of file
    book_raw,          \* chapters array stored in every well-formed book file
    pc,                \* per caller: position in the command being executed
    args,              \* per caller: the command and its arguments
    public_dir,        \* per caller: local of get_public_dir's result
    file_path,         \* per caller: path handed to read_json_file
    book_data,         \* per caller: chapters of the deserialized BookFile
    idx,               \* per caller: position of the `for chapter in` iterator
    result,            \* per caller: the Result<_, String> being returned
    ops,               \* per caller: filesystem operations of the running call
    seen,              \* every result each invocation has returned so far
    remaining          \* per caller: invocations it may still issue

env  == <<debug_assertions, resource_dir_ok, root_exists, disk, book_raw>>
vars == <<debug_assertions, resource_dir_ok, root_exists, disk, book_raw,
          pc, args, public_dir, file_path, book_data, idx, result, ops,
          seen, remaining>>

-----------------------------------------------------------------------------
(* Bounds of the model *)

MaxChapters == 2    \* longest chapters array of a book file
MaxCalls    == 2    \* invocations the first caller issues, one after another
SoloCalls   == 1    \* invocations of a caller that issues them alone, and of
                    \* the second caller of the concurrent specification

Callers == {"c1", "c2"}

-----------------------------------------------------------------------------
(* Integers and the serde_json::Value of the `chapter` field *)

\* A u64 is held as its two 32-bit halves, n = hi * 2^32 + lo, so that values
\* at and above 2^32 are exact; a u32 is its own low half.
\* `num as u32`: a u64 truncated to its low 32 bits
AsU32(num) == num.lo

JNull       == [t |-> "null",   hi |-> 0, lo |-> 0, s |-> <<>>]
JAbsent     == [t |-> "absent", hi |-> 0, lo |-> 0, s |-> <<>>]  \* key missing
JBool       == [t |-> "bool",   hi |-> 0, lo |-> 1, s |-> <<>>]
JArray      == [t |-> "array",  hi |-> 0, lo |-> 0, s |-> <<>>]
JObject     == [t |-> "object", hi |-> 0, lo |-> 0, s |-> <<>>]
JU64(hi, lo) == [t |-> "u64",   hi |-> hi, lo |-> lo, s |-> <<>>] \* integer >= 0
JI64(n)     == [t |-> "i64",    hi |-> 0, lo |-> n, s |-> <<>>]  \* integer < 0
JF64(n)     == [t |-> "f64",    hi |-> 0, lo |-> n, s |-> <<>>]  \* n + 0.5
JString(s)  == [t |-> "string", hi |-> 0, lo |-> 0, s |-> s]     \* characters

\* Value::as_u64: Some(n) only for a non-negative integer number
AsU64(v) == IF v.t = "u64" THEN {[hi |-> v.hi, lo |-> v.lo]} ELSE {}

\* Value::as_str: Some(s) only for a string
AsStr(v) == IF v.t = "string" THEN {v.s} ELSE {}

DigitChar(d) ==
    CASE d = 0 -> "0" [] d = 1 -> "1" [] d = 2 -> "2" [] d = 3 -> "3"
      [] d = 4 -> "4" [] d = 5 -> "5" [] d = 6 -> "6" [] d = 7 -> "7"
      [] d = 8 -> "8" [] d = 9 -> "9"

\* u32::to_string: the decimal digits, most significant first, no padding
RECURSIVE U32ToString(_)
U32ToString(n) ==
    IF n < 10 THEN <<DigitChar(n)>>
    ELSE Append(U32ToString(n \div 10), DigitChar(n % 10))

-----------------------------------------------------------------------------
(* Records of the book files and manifests *)

\* Verse list of the chapter stored at position k of a book file; the text
\* is an identifier of the verse body, so that chapters are told apart.
VersesAt(k) == <<[verse |-> "1", text |-> k]>>

\* A chapters array as stored in a file, from the values of its chapter keys
RawChapters(vals) ==
    [k \in 1..Len(vals) |-> [chapter |-> vals[k], verses |-> VersesAt(k)]]

\* #[serde(default)] chapter: a missing key becomes Value::Null, every other
\* JSON value is taken as it is; verses are required and kept in order.
Chapter(raw) ==
    [chapter |-> IF raw.chapter.t = "absent" THEN JNull ELSE raw.chapter,
     verses  |-> raw.verses]

\* struct BookFile, of which the lookup uses the chapters
BookFile(raw) == [k \in 1..Len(raw) |-> Chapter(raw[k])]

LanguageManifest ==
    <<[code |-> "eng", name |-> "English",
       translations |-> <<[id |-> "KJV", name |-> "King James Version",
                           folder |-> "KJV"]>>],
      [code |-> "amh", name |-> "Amharic", translations |-> <<>>]>>

BookManifest ==
    <<[name |-> "Genesis", abbr |-> "Gen", chapters |-> 50]>>

-----------------------------------------------------------------------------
(* Paths and the content tree *)

Languages    == {"eng"}
Translations == {"KJV"}
Abbrs        == {"Gen", "gen"}
Requests     == {5, 6}

\* str::to_lowercase on the abbreviations in use
ToLowercase(a) == CASE a = "Gen" -> "gen" [] a = "gen" -> "gen"

\* format!("{}.json", stem)
JsonName(stem) == CASE stem = "Gen" -> "Gen.json" [] stem = "gen" -> "gen.json"

TranslationsRel == <<"translations_manifest.json">>
ManifestRel(l, t) == <<l, t, "manifest.json">>
BookRel(l, t, stem) == <<l, t, "json", JsonName(stem)>>

RelPaths ==
    {TranslationsRel}
    \cup {ManifestRel(l, t) : l \in Languages, t \in Translations}
    \cup {BookRel(l, t, a) : l \in Languages, t \in Translations, a \in Abbrs}

FileKinds == {"missing", "unreadable", "malformed", "ok"}

\* The directory get_public_dir resolves: "../public" in development,
\* <resource_dir>/public when packaged.
ResolvedDir ==
    IF debug_assertions THEN <<"..", "public">> ELSE <<"resources", "public">>

Rel(path) == SubSeq(path, Len(ResolvedDir) + 1, Len(path))

KindOf(path) ==
    IF ~root_exists \/ Rel(path) \notin DOMAIN disk THEN "missing"
    ELSE disk[Rel(path)]

\* Path::exists
Exists(path) ==
    IF path = ResolvedDir THEN root_exists ELSE KindOf(path) # "missing"

-----------------------------------------------------------------------------
(* Results: Ok(data) or Err(message), the message as its pieces *)

Ok(data) == [ok |-> TRUE,  data |-> data, msg |-> <<>>]
Err(msg) == [ok |-> FALSE, data |-> <<>>, msg |-> msg]
NoResult == Err(<<>>)

ResourceDirMsg   == <<"Failed to resolve resource directory: ", "unknown path">>
RootNotFoundMsg(dir) == <<"Public directory not found at: ">> \o dir
ReadErrorMsg(path)   ==
    <<"Failed to read file '">> \o path \o <<"': ", "io error">>
ParseErrorMsg(path)  ==
    <<"Failed to parse JSON from '">> \o path \o <<"': ", "serde error">>
\* (mutant) the message without the directory
BookNotFoundMsgNoDir(a) == <<"Book file not found for '", a.book_abbr, "'">>
BookNotFoundMsg(a)   ==
    <<"Book file not found for '", a.book_abbr, "' in ",
      a.language_code, "/", a.translation_folder, "/json/">>
ChapterNotFoundMsg(a) ==
    <<"Chapter ">> \o U32ToString(a.chapter_number)
        \o <<" not found in book file for ", a.book_abbr>>

-----------------------------------------------------------------------------
(* The commands' arguments *)

NoArgs ==
    [query |-> "none", language_code |-> "", translation_folder |-> "",
     book_abbr |-> "", chapter_number |-> 0]

Invocations ==
    {[NoArgs EXCEPT !.query = "get_translations_manifest"]}
    \cup {[NoArgs EXCEPT !.query = "get_book_manifest",
                         !.language_code = l, !.translation_folder = t] :
            l \in Languages, t \in Translations}
    \cup {[query |-> "get_chapter_content", language_code |-> l,
           translation_folder |-> t, book_abbr |-> a, chapter_number |-> r] :
            l \in Languages, t \in Translations, a \in Abbrs, r \in Requests}

-----------------------------------------------------------------------------
(* Pieces of the commands *)

\* (mutant) get_public_dir without its existence check
RootCheckSkipped == FALSE

\* get_public_dir's check of the resolved directory
RootMissing == ~Exists(ResolvedDir)

\* base_path of load_book_file
BasePath(dir, a) == dir \o <<a.language_code, a.translation_folder, "json">>

\* (mutant) the first candidate built without to_lowercase
LowercasePathAsGiven(dir, a) == Append(BasePath(dir, a), JsonName(a.book_abbr))

\* lowercase_path and exact_path of load_book_file
LowercasePath(dir, a) ==
    Append(BasePath(dir, a), JsonName(ToLowercase(a.book_abbr)))
ExactPath(dir, a) == Append(BasePath(dir, a), JsonName(a.book_abbr))

\* (mutant) a candidate counts only if it also parses, so that a malformed
\* file is passed over
CandidateFoundAndValid(path) == Exists(path) /\ KindOf(path) = "ok"

\* the test that commits load_book_file to a candidate
CandidateFound(path) == Exists(path)

\* serde_json::from_str::<BookFile>: every JSON value, and a missing key,
\* is accepted for `chapter`
JsonKinds ==
    {"null", "bool", "array", "object", "u64", "i64", "f64", "string"}
\* (mutant) `chapter` without #[serde(default)]: the key is required
DeserializesRequired(raw) ==
    \A k \in 1..Len(raw) : raw[k].chapter.t \in JsonKinds

Deserializes(raw) ==
    \A k \in 1..Len(raw) : raw[k].chapter.t \in JsonKinds \cup {"absent"}

\* if let Some(num) = chapter.chapter.as_u64() { num as u32 == chapter_number }
NumericMatch(ch, r) == \E num \in AsU64(ch.chapter) : AsU32(num) = r

\* if let Some(str_val) = chapter.chapter.as_str() { str_val == chapter_str }
TextMatch(ch, r) == \E str_val \in AsStr(ch.chapter) : str_val = U32ToString(r)

\* the iterator of `for chapter in &book_data.chapters`: created at the first
\* chapter, advanced by one
\* (mutant) the position survives from the caller's previous call
LoopInitStale(c) == idx
\* (mutant) one position shared by all callers
LoopNextShared(c) == [d \in Callers |-> idx[c] + 1]

LoopInit(c) == [idx EXCEPT ![c] = 1]
LoopNext(c) == [idx EXCEPT ![c] = @ + 1]

Stat(c, site, path) ==
    [ops EXCEPT ![c] = Append(@, [op |-> "stat", site |-> site, path |-> path])]
Read(c, site, path) ==
    [ops EXCEPT ![c] = Append(@, [op |-> "read", site |-> site, path |-> path])]

\* the command returns r to the presentation layer
Finish(c, r) ==
    /\ result' = [result EXCEPT ![c] = r]
    /\ pc' = [pc EXCEPT ![c] = "done"]

-----------------------------------------------------------------------------
(* Steps *)

\* The presentation layer invokes a command.
Invoke(c) ==
    /\ pc[c] = "idle"
    /\ remaining[c] > 0
    /\ \E a \in Invocations : args' = [args EXCEPT ![c] = a]
    /\ remaining' = [remaining EXCEPT ![c] = @ - 1]
    /\ pc' = [pc EXCEPT ![c] = "get_public_dir"]
    /\ UNCHANGED <<env, public_dir, file_path, book_data, idx, result, ops,
                   seen>>

\* get_public_dir, and the join that builds the manifest path.
GetPublicDir(c) ==
    /\ pc[c] = "get_public_dir"
    /\ IF ~debug_assertions /\ ~resource_dir_ok
       THEN /\ Finish(c, Err(ResourceDirMsg))
            /\ UNCHANGED <<public_dir, file_path, ops>>
       ELSE /\ ops' = Stat(c, "root", ResolvedDir)
            /\ IF RootMissing
               THEN /\ Finish(c, Err(RootNotFoundMsg(ResolvedDir)))
                    /\ UNCHANGED <<public_dir, file_path>>
               ELSE /\ public_dir' = [public_dir EXCEPT ![c] = ResolvedDir]
                    /\ UNCHANGED result
                    /\ CASE args[c].query = "get_translations_manifest" ->
                              /\ file_path' = [file_path EXCEPT ![c] =
                                                 ResolvedDir \o TranslationsRel]
                              /\ pc' = [pc EXCEPT ![c] = "read_manifest"]
                         [] args[c].query = "get_book_manifest" ->
                              /\ file_path' = [file_path EXCEPT ![c] =
                                    ResolvedDir \o
                                    ManifestRel(args[c].language_code,
                                                args[c].translation_folder)]
                              /\ pc' = [pc EXCEPT ![c] = "read_manifest"]
                         [] args[c].query = "get_chapter_content" ->
                              /\ pc' = [pc EXCEPT ![c] = "probe_lower"]
                              /\ UNCHANGED file_path
    /\ UNCHANGED <<env, args, book_data, idx, seen, remaining>>

\* load_book_file: the lowercase candidate.
ProbeLower(c) ==
    /\ pc[c] = "probe_lower"
    /\ LET lowercase_path == LowercasePath(public_dir[c], args[c]) IN
       /\ ops' = Stat(c, "lower", lowercase_path)
       /\ IF CandidateFound(lowercase_path)
          THEN /\ file_path' = [file_path EXCEPT ![c] = lowercase_path]
               /\ pc' = [pc EXCEPT ![c] = "read_lower"]
          ELSE /\ pc' = [pc EXCEPT ![c] = "probe_exact"]
               /\ UNCHANGED file_path
    /\ UNCHANGED <<env, args, public_dir, book_data, idx, result, seen,
                   remaining>>

\* load_book_file: the exact-case candidate, and the error when both miss.
ProbeExact(c) ==
    /\ pc[c] = "probe_exact"
    /\ LET exact_path == ExactPath(public_dir[c], args[c]) IN
       /\ ops' = Stat(c, "exact", exact_path)
       /\ IF CandidateFound(exact_path)
          THEN /\ file_path' = [file_path EXCEPT ![c] = exact_path]
               /\ pc' = [pc EXCEPT ![c] = "read_exact"]
               /\ UNCHANGED result
          ELSE /\ Finish(c, Err(BookNotFoundMsg(args[c])))
               /\ UNCHANGED file_path
    /\ UNCHANGED <<env, args, public_dir, book_data, idx, seen, remaining>>

\* read_json_file at one of its three call sites, and what follows the `?`.
ReadJson(c) ==
    /\ pc[c] \in {"read_manifest", "read_lower", "read_exact"}
    /\ ops' = Read(c, pc[c], file_path[c])
    /\ LET kind == KindOf(file_path[c]) IN
       IF kind \in {"missing", "unreadable"}
       THEN /\ Finish(c, Err(ReadErrorMsg(file_path[c])))
            /\ UNCHANGED <<book_data, idx>>
       ELSE IF kind = "malformed"
       THEN /\ Finish(c, Err(ParseErrorMsg(file_path[c])))
            /\ UNCHANGED <<book_data, idx>>
       ELSE IF args[c].query = "get_translations_manifest"
       THEN /\ Finish(c, Ok(LanguageManifest))
            /\ UNCHANGED <<book_data, idx>>
       ELSE IF args[c].query = "get_book_manifest"
       THEN /\ Finish(c, Ok(BookManifest))
            /\ UNCHANGED <<book_data, idx>>
       ELSE IF ~Deserializes(book_raw)
       THEN /\ Finish(c, Err(ParseErrorMsg(file_path[c])))
            /\ UNCHANGED <<book_data, idx>>
       ELSE /\ book_data' = [book_data EXCEPT ![c] = BookFile(book_raw)]
            /\ idx' = LoopInit(c)
            /\ pc' = [pc EXCEPT ![c] = "scan"]
            /\ UNCHANGED result
    /\ UNCHANGED <<env, args, public_dir, file_path, seen, remaining>>

\* One iteration of the loop over the chapters, or the error after it.
ScanChapter(c) ==
    /\ pc[c] = "scan"
    /\ IF idx[c] > Len(book_data[c])
       THEN /\ Finish(c, Err(ChapterNotFoundMsg(args[c])))
            /\ UNCHANGED idx
       ELSE LET chapter == book_data[c][idx[c]] IN
            IF \/ NumericMatch(chapter, args[c].chapter_number)
               \/ TextMatch(chapter, args[c].chapter_number)
            THEN /\ Finish(c, Ok(chapter.verses))
                 /\ UNCHANGED idx
            ELSE /\ idx' = LoopNext(c)
                 /\ UNCHANGED <<pc, result>>
    /\ UNCHANGED <<env, args, public_dir, file_path, book_data, ops, seen,
                   remaining>>

\* The result reaches the presentation layer; the call's locals are dropped.
Return(c) ==
    /\ pc[c] = "done"
    /\ seen' = [seen EXCEPT ![args[c]] = @ \cup {result[c]}]
    /\ pc' = [pc EXCEPT ![c] = "idle"]
    /\ args' = [args EXCEPT ![c] = NoArgs]
    /\ public_dir' = [public_dir EXCEPT ![c] = <<>>]
    /\ file_path' = [file_path EXCEPT ![c] = <<>>]
    /\ book_data' = [book_data EXCEPT ![c] = <<>>]
    /\ result' = [result EXCEPT ![c] = NoResult]
    /\ ops' = [ops EXCEPT ![c] = <<>>]
    /\ UNCHANGED <<env, idx, remaining>>

Next ==
    \E c \in Callers :
        \/ Invoke(c)
        \/ GetPublicDir(c)
        \/ ProbeLower(c)
        \/ ProbeExact(c)
        \/ ReadJson(c)
        \/ ScanChapter(c)
        \/ Return(c)

-----------------------------------------------------------------------------
(* Initial states *)

InitCallers ==
    /\ pc = [c \in Callers |-> "idle"]
    /\ args = [c \in Callers |-> NoArgs]
    /\ public_dir = [c \in Callers |-> <<>>]
    /\ file_path = [c \in Callers |-> <<>>]
    /\ book_data = [c \in Callers |-> <<>>]
    /\ idx = [c \in Callers |-> 1]
    /\ result = [c \in Callers |-> NoResult]
    /\ ops = [c \in Callers |-> <<>>]
    /\ seen = [a \in Invocations |-> {}]

\* Values the chapter key of a stored chapter takes
ChapterValues ==
    {JAbsent, JNull, JBool, JArray, JObject, JI64(-5), JF64(5),
     JU64(0, 5), JU64(1, 5), JString(<<"5">>), JString(<<"0", "5">>)}

Books(values) ==
    UNION {{RawChapters(vals) : vals \in [1..n -> values]} : n \in 0..MaxChapters}

\* Every content tree: any build, the root present or not, every file of
\* any kind; one caller, one call.
Init ==
    /\ debug_assertions \in BOOLEAN
    /\ resource_dir_ok \in BOOLEAN
    /\ debug_assertions => resource_dir_ok
    /\ root_exists \in BOOLEAN
    /\ ~resource_dir_ok => ~root_exists   \* no directory was resolved
    /\ disk \in [RelPaths -> FileKinds]
    /\ ~root_exists => \A p \in RelPaths : disk[p] = "missing"
    /\ book_raw \in Books({JU64(0, 5), JString(<<"5">>)})
    /\ remaining = [c \in Callers |-> IF c = "c1" THEN SoloCalls ELSE 0]
    /\ InitCallers

Spec == Init /\ [][Next]_vars

\* Every book file: the content tree in place, the book stored under one of
\* the two names; one caller, one call.
InitLookup ==
    /\ debug_assertions = TRUE
    /\ resource_dir_ok = TRUE
    /\ root_exists = TRUE
    /\ \E stem \in Abbrs :
         disk = [p \in RelPaths |->
                   IF \E a \in Abbrs \ {stem} : p = BookRel("eng", "KJV", a)
                   THEN "missing" ELSE "ok"]
    /\ book_raw \in Books(ChapterValues)
    /\ remaining = [c \in Callers |-> IF c = "c1" THEN SoloCalls ELSE 0]
    /\ InitCallers

SpecLookup == InitLookup /\ [][Next]_vars

\* Two callers at once over a handful of content trees.
InitConcurrent ==
    /\ debug_assertions = TRUE
    /\ resource_dir_ok = TRUE
    /\ root_exists = TRUE
    /\ disk \in [RelPaths -> {"missing", "malformed", "ok"}]
    /\ disk[TranslationsRel] = "ok"
    /\ disk[ManifestRel("eng", "KJV")] = "ok"
    /\ book_raw \in {RawChapters(<<JNull, JU64(0, 5)>>),
                     RawChapters(<<JString(<<"5">>), JU64(1, 6)>>)}
    /\ remaining = [c \in Callers |-> IF c = "c1" THEN MaxCalls ELSE SoloCalls]
    /\ InitCallers

SpecConcurrent == InitConcurrent /\ [][Next]_vars

-----------------------------------------------------------------------------
(* Reading the state *)

Done(c) == pc[c] = "done"
ChapterCall(c) == args[c].query = "get_chapter_content"

\* The error of the taxonomy a result stands for
ErrKind(r) ==
    IF r.ok THEN "Ok"
    ELSE IF r.msg = <<>> THEN "None"
    ELSE CASE r.msg[1] = "Failed to resolve resource directory: " -> "ResourceDir"
           [] r.msg[1] = "Public directory not found at: " -> "ContentRootNotFound"
           [] r.msg[1] = "Failed to read file '" -> "FileReadError"
           [] r.msg[1] = "Failed to parse JSON from '" -> "ParseError"
           [] r.msg[1] = "Book file not found for '" -> "BookFileNotFound"
           [] r.msg[1] = "Chapter " -> "ChapterNotFound"

\* The message has x among its pieces
Names(r, x) == \E k \in 1..Len(r.msg) : r.msg[k] = x

\* The two candidates of a chapter call, as the layout of the content tree
\* gives them
LowerCandidate(a) ==
    ResolvedDir \o BookRel(a.language_code, a.translation_folder,
                           ToLowercase(a.book_abbr))
ExactCandidate(a) ==
    ResolvedDir \o BookRel(a.language_code, a.translation_folder, a.book_abbr)

\* The call of c has read a well-formed book file
LoadedOk(c) ==
    \E k \in 1..Len(ops[c]) :
        /\ ops[c][k].op = "read"
        /\ ops[c][k].site \in {"read_lower", "read_exact"}
        /\ KindOf(ops[c][k].path) = "ok"

\* A stored chapter is the one requested: its key is the number r, or the
\* string of r's decimal digits
IsChapter(raw, r) ==
    \/ raw.chapter.t = "u64" /\ raw.chapter.hi = 0 /\ raw.chapter.lo = r
    \/ raw.chapter.t = "string" /\ raw.chapter.s = U32ToString(r)

\* A chapter key that is neither a non-negative integer nor a string
NoIdentity(raw) == raw.chapter.t \notin {"u64", "string"}

-----------------------------------------------------------------------------
(* Chapter lookup *)

\* C1: a chapter call that loaded a book file returns the verses of the
\* first stored chapter whose key is the requested number r or the string
\* of r's decimal digits, and of no other chapter.
C1_FirstChapterReturned ==
    \A c \in Callers :
        (Done(c) /\ ChapterCall(c) /\ LoadedOk(c)) =>
            \A k \in 1..Len(book_raw) :
                (/\ IsChapter(book_raw[k], args[c].chapter_number)
                 /\ \A j \in 1..(k - 1) :
                        ~IsChapter(book_raw[j], args[c].chapter_number))
                => result[c] = Ok(book_raw[k].verses)

\* C4: at every chapter the scan visits whose key is a non-negative integer
\* n, the numeric check succeeds exactly when n equals the requested number.
C4_NumericMatchIffEqual ==
    \A c \in Callers :
        (pc[c] = "scan" /\ idx[c] <= Len(book_data[c])) =>
            LET chapter == book_data[c][idx[c]] IN
            \A num \in AsU64(chapter.chapter) :
                NumericMatch(chapter, args[c].chapter_number)
                    <=> (num.hi = 0 /\ num.lo = args[c].chapter_number)

\* C5: a chapter call fails with ChapterNotFound, naming the requested number
\* and the book, exactly when it loaded a book file none of whose chapters
\* has the requested number as its key, as a number or as a string.
C5_ChapterNotFoundIffNoChapter ==
    \A c \in Callers :
        (Done(c) /\ ChapterCall(c)) =>
            /\ ErrKind(result[c]) = "ChapterNotFound"
                 <=> (/\ LoadedOk(c)
                      /\ \A k \in 1..Len(book_raw) :
                            ~IsChapter(book_raw[k], args[c].chapter_number))
            /\ ErrKind(result[c]) = "ChapterNotFound"
                 => /\ Names(result[c], args[c].book_abbr)
                    /\ \A k \in 1..Len(U32ToString(args[c].chapter_number)) :
                          Names(result[c],
                                U32ToString(args[c].chapter_number)[k])

\* C10: a chapter whose key is missing, null, negative, fractional, a
\* boolean, an array or an object is deserialized without a ParseError, is
\* never the chapter returned, and does not end the scan: the requested
\* chapter stored after such chapters is returned, and a book of such
\* chapters alone ends in ChapterNotFound.
C10_KeylessChaptersSkipped ==
    \A c \in Callers :
        (Done(c) /\ ChapterCall(c) /\ LoadedOk(c)) =>
            /\ ErrKind(result[c]) \in {"Ok", "ChapterNotFound"}
            /\ \A k \in 1..Len(book_raw) :
                  NoIdentity(book_raw[k]) => result[c] # Ok(book_raw[k].verses)
            /\ \A k \in 1..Len(book_raw) :
                  (/\ IsChapter(book_raw[k], args[c].chapter_number)
                   /\ \A j \in 1..(k - 1) : NoIdentity(book_raw[j]))
                  => result[c] = Ok(book_raw[k].verses)
            /\ (\A k \in 1..Len(book_raw) : NoIdentity(book_raw[k]))
                  => ErrKind(result[c]) = "ChapterNotFound"

\* C10 witness: the requested chapter, stored after a chapter without a key,
\* has been returned.
C10_Witness ==
    \E c \in Callers :
        /\ Done(c) /\ ChapterCall(c)
        /\ Len(book_raw) = 2
        /\ book_raw[1].chapter = JAbsent
        /\ IsChapter(book_raw[2], args[c].chapter_number)
        /\ result[c] = Ok(book_raw[2].verses)

-----------------------------------------------------------------------------
(* Book file resolution *)

SiteOps(c, sites) ==
    {k \in 1..Len(ops[c]) : ops[c][k].site \in sites}

\* C2: in a finished chapter call, if the lowercase candidate exists it is
\* the one file read and the exact-case probe and read never happen; the
\* exact-case candidate is read exactly when the lowercase candidate does not
\* exist and the exact-case one does.
C2_LowercaseFirst ==
    \A c \in Callers :
        (Done(c) /\ ChapterCall(c)) =>
            LET lower == LowerCandidate(args[c])
                exact == ExactCandidate(args[c])
                reads == {k \in 1..Len(ops[c]) : ops[c][k].op = "read"}
            IN
            /\ Exists(lower) =>
                 /\ \E k \in reads : ops[c][k].path = lower
                 /\ \A k \in reads :
                       ops[c][k].path = lower /\ ops[c][k].site = "read_lower"
                 /\ SiteOps(c, {"exact", "read_exact"}) = {}
            /\ (\E k \in reads :
                    ops[c][k].site = "read_exact" /\ ops[c][k].path = exact)
                 <=> (~Exists(lower) /\ Exists(exact))
            /\ \A k \in reads : ops[c][k].path \in {lower, exact}

\* C2 witness: abbreviation "Gen", gen.json and Gen.json both there, the
\* call has succeeded.
C2_Witness ==
    \E c \in Callers :
        /\ Done(c) /\ ChapterCall(c) /\ args[c].book_abbr = "Gen"
        /\ Exists(LowerCandidate(args[c])) /\ Exists(ExactCandidate(args[c]))
        /\ result[c].ok

\* C3 as stated: with the root there and neither candidate, the call fails
\* with BookFileNotFound and its message names both attempted files (taken
\* here as their stems at least) and the directory searched.
C3_NamesBothFiles ==
    \A c \in Callers :
        (/\ Done(c) /\ ChapterCall(c) /\ root_exists
         /\ ~Exists(LowerCandidate(args[c]))
         /\ ~Exists(ExactCandidate(args[c])))
        => /\ ErrKind(result[c]) = "BookFileNotFound"
           /\ Names(result[c], args[c].book_abbr)
              \/ Names(result[c], JsonName(args[c].book_abbr))
           /\ Names(result[c], ToLowercase(args[c].book_abbr))
              \/ Names(result[c], JsonName(ToLowercase(args[c].book_abbr)))
           /\ Names(result[c], args[c].language_code)
           /\ Names(result[c], args[c].translation_folder)

\* C3 as amended: with the root there and neither candidate, the call fails
\* with BookFileNotFound; the message names the abbreviation as it was given
\* and the directory as <language_code>/<translation_folder>/json/, and
\* names neither file name, nor the lowercased abbreviation when that
\* differs from the one given, nor the content root.
C3_NamesAbbrAndDir ==
    \A c \in Callers :
        (/\ Done(c) /\ ChapterCall(c) /\ root_exists
         /\ ~Exists(LowerCandidate(args[c]))
         /\ ~Exists(ExactCandidate(args[c])))
        => /\ ErrKind(result[c]) = "BookFileNotFound"
           /\ Names(result[c], args[c].book_abbr)
           /\ Names(result[c], args[c].language_code)
           /\ Names(result[c], args[c].translation_folder)
           /\ Names(result[c], "/json/")
           /\ ~Names(result[c], JsonName(args[c].book_abbr))
           /\ ~Names(result[c], JsonName(ToLowercase(args[c].book_abbr)))
           /\ ToLowercase(args[c].book_abbr) # args[c].book_abbr
                => ~Names(result[c], ToLowercase(args[c].book_abbr))
           /\ \A k \in 1..Len(ResolvedDir) : ~Names(result[c], ResolvedDir[k])

\* C3 witness: "Gen" was asked for, neither file is there, the call failed.
C3_Witness ==
    \E c \in Callers :
        /\ Done(c) /\ ChapterCall(c) /\ root_exists
        /\ args[c].book_abbr = "Gen"
        /\ ~Exists(LowerCandidate(args[c]))
        /\ ~Exists(ExactCandidate(args[c]))
        /\ ErrKind(result[c]) = "BookFileNotFound"

\* C6 as stated: whichever candidate exists with malformed contents, the
\* call fails with ParseError for that file, never with BookFileNotFound,
\* and a malformed lowercase candidate is not passed over for the exact-case
\* one.
C6_AnyMalformedCandidate ==
    \A c \in Callers :
        (Done(c) /\ ChapterCall(c)) =>
            \A cand \in {LowerCandidate(args[c]), ExactCandidate(args[c])} :
                KindOf(cand) = "malformed" =>
                    /\ result[c] = Err(ParseErrorMsg(cand))
                    /\ cand = LowerCandidate(args[c])
                         => SiteOps(c, {"exact", "read_exact"}) = {}

\* C6 as amended: if the candidate the probe settles on (the lowercase one
\* when it exists, otherwise the exact-case one) is malformed, the call
\* fails with ParseError for that file; a malformed lowercase candidate is
\* not passed over for the exact-case one; and no call fails with
\* BookFileNotFound while a candidate exists, malformed or not.
C6_SelectedMalformedCandidate ==
    \A c \in Callers :
        (Done(c) /\ ChapterCall(c)) =>
            LET lower == LowerCandidate(args[c])
                exact == ExactCandidate(args[c])
                selected == IF Exists(lower) THEN lower ELSE exact
            IN
            /\ KindOf(selected) = "malformed" =>
                 /\ result[c] = Err(ParseErrorMsg(selected))
                 /\ selected = lower => SiteOps(c, {"exact", "read_exact"}) = {}
            /\ (Exists(lower) \/ Exists(exact))
                 => ErrKind(result[c]) # "BookFileNotFound"

\* C6 witness: "Gen" was asked for, gen.json is malformed and Gen.json is
\* well-formed, and the call failed with ParseError.
C6_Witness ==
    \E c \in Callers :
        /\ Done(c) /\ ChapterCall(c) /\ args[c].book_abbr = "Gen"
        /\ KindOf(LowerCandidate(args[c])) = "malformed"
        /\ KindOf(ExactCandidate(args[c])) = "ok"
        /\ ErrKind(result[c]) = "ParseError"

\* C7: when the directory was resolved and does not exist, a call of any of
\* the three commands performs no filesystem operation besides the check of
\* that directory, and ends with ContentRootNotFound carrying its path.
C7_RootCheckedFirst ==
    \A c \in Callers :
        (resource_dir_ok /\ ~root_exists) =>
            /\ \A k \in 1..Len(ops[c]) :
                  ops[c][k] = [op |-> "stat", site |-> "root",
                               path |-> ResolvedDir]
            /\ pc[c] \in {"idle", "get_public_dir", "done"}
            /\ Done(c) => result[c] = Err(RootNotFoundMsg(ResolvedDir))

\* C7 witness: a chapter call has failed on the missing root.
C7_Witness ==
    \E c \in Callers :
        /\ Done(c) /\ ChapterCall(c) /\ ~root_exists
        /\ ErrKind(result[c]) = "ContentRootNotFound"
        /\ Len(ops[c]) = 1

-----------------------------------------------------------------------------
(* The commands run from start to end without interruption *)

\* the loop of get_chapter_content from chapter i on
RECURSIVE ScanFrom(_, _, _)
ScanFrom(chapters, i, a) ==
    IF i > Len(chapters) THEN Err(ChapterNotFoundMsg(a))
    ELSE IF \/ NumericMatch(chapters[i], a.chapter_number)
            \/ TextMatch(chapters[i], a.chapter_number)
         THEN Ok(chapters[i].verses)
         ELSE ScanFrom(chapters, i + 1, a)

\* read_json_file(path), then `continue` applied to the parsed record
ReadJsonFile(path, parses, continue) ==
    IF KindOf(path) \in {"missing", "unreadable"} THEN Err(ReadErrorMsg(path))
    ELSE IF KindOf(path) = "malformed" \/ ~parses THEN Err(ParseErrorMsg(path))
    ELSE continue

\* get_chapter_content after get_public_dir: load_book_file, then the loop
GetChapterContent(dir, a) ==
    LET scan == ScanFrom(BookFile(book_raw), 1, a) IN
    IF CandidateFound(LowercasePath(dir, a))
    THEN ReadJsonFile(LowercasePath(dir, a), Deserializes(book_raw), scan)
    ELSE IF CandidateFound(ExactPath(dir, a))
    THEN ReadJsonFile(ExactPath(dir, a), Deserializes(book_raw), scan)
    ELSE Err(BookNotFoundMsg(a))

\* a whole command
RunAlone(a) ==
    IF ~debug_assertions /\ ~resource_dir_ok THEN Err(ResourceDirMsg)
    ELSE IF RootMissing THEN Err(RootNotFoundMsg(ResolvedDir))
    ELSE CASE a.query = "get_translations_manifest" ->
                ReadJsonFile(ResolvedDir \o TranslationsRel, TRUE,
                             Ok(LanguageManifest))
           [] a.query = "get_book_manifest" ->
                ReadJsonFile(ResolvedDir \o ManifestRel(a.language_code,
                                                        a.translation_folder),
                             TRUE, Ok(BookManifest))
           [] a.query = "get_chapter_content" ->
                GetChapterContent(ResolvedDir, a)

-----------------------------------------------------------------------------
(* Statelessness *)

\* C8: over an unchanged content tree every invocation returns one result,
\* however often it is made, by whichever caller, and whatever was invoked
\* in between.
C8_Idempotent ==
    /\ \A a \in Invocations : Cardinality(seen[a]) <= 1
    /\ \A c \in Callers : Done(c) => seen[args[c]] \subseteq {result[c]}

\* C8 witness: an invocation made before is finished again, after another
\* invocation has returned.
C8_Witness ==
    \E c \in Callers : \E b \in Invocations :
        /\ Done(c) /\ ChapterCall(c)
        /\ seen[args[c]] = {result[c]}
        /\ b # args[c] /\ seen[b] # {}
        /\ remaining[c] = 0

Locals(c) ==
    <<pc[c], args[c], public_dir[c], file_path[c], book_data[c], idx[c],
      result[c], ops[c]>>

\* C9: whatever the interleaving of the steps of two callers, a finished
\* call holds the result the same command gives when run alone, and no step
\* changes the locals of more than one caller.
C9_Interleaved ==
    /\ [](\A c \in Callers : Done(c) => result[c] = RunAlone(args[c]))
    /\ [][\A c, d \in Callers :
             (Locals(c)' # Locals(c) /\ Locals(d)' # Locals(d)) => c = d]_vars

\* C9 witness: one caller has finished a successful chapter call while the
\* other is in the middle of scanning for a different chapter.
C9_Witness ==
    \E c, d \in Callers :
        /\ c # d
        /\ Done(c) /\ ChapterCall(c) /\ result[c].ok
        /\ pc[d] = "scan" /\ idx[d] > 1
        /\ args[d].chapter_number # args[c].chapter_number

====
